---------------------------- MODULE Spec2Model ----------------------------
(***************************************************************************)
(* StorageVec<T, N> of storagevec (src/src/svec.rs): a vector facade over  *)
(* one of three backing stores chosen by cargo features:                   *)
(*   Fixed  (not alloc)       tinyvec::ArrayVec<[UninitContainer<T>; N]>    *)
(*   Heap   (alloc, no stack) alloc::vec::Vec<T>                            *)
(*   Hybrid (alloc + stack)   tinyvec::TinyVec<[UninitContainer<T>; N]>     *)
(* The calls svec.rs makes into tinyvec and alloc are modelled by what     *)
(* those library methods are documented to do (ArrayVec_*, TinyVec_*,      *)
(* Vec_* below), panics included. A panic ends the thread: no call follows.*)
(***************************************************************************)
EXTENDS Integers, Sequences, FiniteSets, TLC

\* ------------------------------------------------------------------ bounds
\* the const generic N of StorageVec<T, N>: the number of inline slots
N == 2
\* the number of distinct values the caller ever hands to a container
MaxVal == 3
\* the longest sequence handed to extend()
MaxExt == 2

\* usize::MAX. TLC's integers are 32 bits wide, so usize is taken at the
\* narrowest pointer width Rust supports (16 bits).
UsizeMax == (2 ^ 16) - 1

Backends == {"Fixed", "Heap", "Hybrid"}
Ids == {"v", "c"}
Val == 1 .. MaxVal
\* what a read of uninitialized memory as T gives
Garbage == 0
\* the val of a result that carries none
NoVal == 0
\* the indices a caller passes: in range, one past, further out, usize::MAX
Indices == (0 .. MaxVal) \cup {UsizeMax}

VARIABLES
    backend,    \* the cargo feature set the crate is built with
    overflowChecks, \* whether the build panics on integer overflow (debug) or wraps (release)
    vecs,       \* Ids -> the StorageVec values the program holds
    iter,       \* the StorageVecIterator made by into_iter, if any
    nextVal,    \* the next value the caller has not used yet
    last,       \* the last call: its arguments, its result, the receiver before it
    hist,       \* for container "v": the pushes since new() and the pops that followed
    taken,      \* what the iterator was made from and what it has yielded at each end
    panicked,   \* the thread has panicked
    returned    \* how many times each value has been handed back to the caller

vars == <<backend, overflowChecks, vecs, iter, nextVal, last, hist, taken, panicked, returned>>

\* ------------------------------------------------------------ the storage
\* UninitContainer::uninit(): a slot that holds no value
Uninit == <<>>

\* UninitContainer::new(item): a slot that holds item
UninitContainer_new(item) == <<item>>

\* UninitContainer::assume_init(this): the slot read as T
assume_init(this) == IF this = Uninit THEN Garbage ELSE this[1]

\* UninitContainer::uninit_array::<N>()
uninit_array == [i \in 1 .. N |-> Uninit]

\* A container: mode "Inline" keeps N slots (data) and the live count (len);
\* mode "Heap" keeps a growable buffer (heap). alive is FALSE before
\* construction and after the value was moved or destroyed.
Container(alive, mode, data, length, heap) ==
    [alive |-> alive, mode |-> mode, data |-> data, len |-> length, heap |-> heap]

NoContainer == Container(FALSE, "Heap", <<>>, 0, <<>>)

\* ArrayVec::from_array_len(data, len) / TinyVec::from_array_len(data, len)
from_array_len(data, length) == Container(TRUE, "Inline", data, length, <<>>)

\* Vec::new(), and the Vec a TinyVec holds once it is on the heap
HeapOf(s) == Container(TRUE, "Heap", <<>>, 0, s)

\* StorageVec::new_impl for each feature set
new_impl(b) == IF b = "Heap" THEN HeapOf(<<>>) ELSE from_array_len(uninit_array, 0)

\* the slots the backing store derefs to: &data[..len] of an ArrayVec, the Vec's elements
as_slice(c) == IF c.mode = "Inline" THEN SubSeq(c.data, 1, c.len) ELSE c.heap

\* UninitContainer::slice_get_ref / slice_get_mut: the slots reinterpreted as T
slice_get_ref(s) == [i \in 1 .. Len(s) |-> assume_init(s[i])]

\* StorageVec::deref_impl / deref_mut_impl: the Vec<T> itself on Heap, the
\* reinterpreted slots on Fixed and Hybrid
deref_impl(c) == IF backend = "Heap" THEN as_slice(c) ELSE slice_get_ref(as_slice(c))

\* [T]::len through Deref
len(c) == Len(deref_impl(c))

\* the result of a call: the receiver afterwards, the kind of result
\* ("Ok", "Err", "Some", "None", "Unit", "Panic") and the value it carries
Outcome(c, res, val) == [c |-> c, res |-> res, val |-> val]

\* a call that panics with message msg, the receiver left as c
Panic(c, msg) == Outcome(c, "Panic", msg)

\* the messages of StorageVec's own panics, in push and in insert
PushOverflow == "<StorageVec> Failed to push item onto list due to capacity overflow"
InsertOverflow == "<StorageVec> Failed to insert item into list due to capacity overflow"

\* ------------------------------------------------------- tinyvec::ArrayVec
\* a try_push whose capacity check is off by one: the last slot is never used
ArrayVec_try_push_early(c, x) ==
    IF c.len + 1 < N
    THEN Outcome([c EXCEPT !.data[c.len + 1] = x, !.len = c.len + 1], "None", NoVal)
    ELSE Outcome(c, "Some", x)

\* ArrayVec::try_push: None when stored, Some(val) when len == CAPACITY
ArrayVec_try_push(c, x) ==
    IF c.len < N
    THEN Outcome([c EXCEPT !.data[c.len + 1] = x, !.len = c.len + 1], "None", NoVal)
    ELSE Outcome(c, "Some", x)

\* ArrayVec::push: try_push, panics "capacity overflow" on a reject
ArrayVec_push(c, x) ==
    LET r == ArrayVec_try_push(c, x)
    IN IF r.res = "None" THEN Outcome(r.c, "Unit", NoVal) ELSE Panic(c, "ArrayVec::push> capacity overflow!")

\* a pop whose emptiness test is off by one: a single element is never popped
ArrayVec_pop_off_by_one(c) ==
    IF c.len > 1
    THEN Outcome([c EXCEPT !.data[c.len] = Uninit, !.len = c.len - 1], "Some", c.data[c.len])
    ELSE Outcome(c, "None", NoVal)

\* ArrayVec::pop: len -= 1, take(&mut data[len])
ArrayVec_pop(c) ==
    IF c.len > 0
    THEN Outcome([c EXCEPT !.data[c.len] = Uninit, !.len = c.len - 1], "Some", c.data[c.len])
    ELSE Outcome(c, "None", NoVal)

\* an insert that stores the item at index over what is there, without
\* shifting [index, len) up
ArrayVec_try_insert_overwrite(c, index, x) ==
    IF index > c.len THEN Panic(c, "ArrayVec::try_insert> index is out of bounds")
    ELSE IF c.len >= N THEN Outcome(c, "Some", x)
    ELSE Outcome([c EXCEPT !.data[index + 1] = x, !.len = c.len + 1], "None", NoVal)

\* ArrayVec::try_insert: asserts index <= len, rejects at len == CAPACITY,
\* else shifts [index, len) up by one and stores the item
ArrayVec_try_insert(c, index, x) ==
    IF index > c.len THEN Panic(c, "ArrayVec::try_insert> index is out of bounds")
    ELSE IF c.len >= N THEN Outcome(c, "Some", x)
    ELSE Outcome([c EXCEPT
                    !.data = [i \in 1 .. N |->
                                IF i <= index THEN c.data[i]
                                ELSE IF i = index + 1 THEN x
                                ELSE c.data[i - 1]],
                    !.len = c.len + 1], "None", NoVal)

\* ArrayVec::remove: take(&mut self[index..][0]), rotate the tail left, len -= 1;
\* the slice index panics for index >= len
ArrayVec_remove(c, index) ==
    IF index >= c.len THEN Panic(c, "slice index out of range")
    ELSE Outcome([c EXCEPT
                    !.data = [i \in 1 .. N |->
                                IF i <= index THEN c.data[i]
                                ELSE IF i < c.len THEN c.data[i + 1]
                                ELSE IF i = c.len THEN Uninit
                                ELSE c.data[i]],
                    !.len = c.len - 1], "Some", c.data[index + 1])

\* ----------------------------------------------------------- alloc::Vec
\* Vec::push
Vec_push(c, x) == Outcome([c EXCEPT !.heap = Append(c.heap, x)], "Unit", NoVal)

\* Vec::pop
Vec_pop(c) ==
    IF Len(c.heap) > 0
    THEN Outcome([c EXCEPT !.heap = SubSeq(c.heap, 1, Len(c.heap) - 1)], "Some",
                 c.heap[Len(c.heap)])
    ELSE Outcome(c, "None", NoVal)

\* Vec::insert: panics for index > len
Vec_insert(c, index, x) ==
    IF index > Len(c.heap) THEN Panic(c, "insertion index should be <= len")
    ELSE Outcome([c EXCEPT !.heap = SubSeq(c.heap, 1, index) \o <<x>>
                                    \o SubSeq(c.heap, index + 1, Len(c.heap))],
                 "Unit", NoVal)

\* Vec::remove: panics for index >= len
Vec_remove(c, index) ==
    IF index >= Len(c.heap) THEN Panic(c, "removal index should be < len")
    ELSE Outcome([c EXCEPT !.heap = SubSeq(c.heap, 1, index)
                                    \o SubSeq(c.heap, index + 2, Len(c.heap))],
                 "Some", c.heap[index + 1])

\* ------------------------------------------------------- tinyvec::TinyVec
\* a push that moves to the heap without draining the array first
TinyVec_push_no_drain(c, x) ==
    IF c.mode = "Heap" THEN Vec_push(c, x)
    ELSE LET r == ArrayVec_try_push(c, x)
         IN IF r.res = "None" THEN Outcome(r.c, "Unit", NoVal)
            ELSE Outcome(HeapOf(<<x>>), "Unit", NoVal)

\* TinyVec::push: Heap pushes; Inline tries the array and, on a reject, drains
\* the array into a new Vec, pushes there and becomes Heap
TinyVec_push(c, x) ==
    IF c.mode = "Heap" THEN Vec_push(c, x)
    ELSE LET r == ArrayVec_try_push(c, x)
         IN IF r.res = "None" THEN Outcome(r.c, "Unit", NoVal)
            ELSE Outcome(HeapOf(Append(as_slice(c), x)), "Unit", NoVal)

\* a pop that moves a heap-backed TinyVec back into the array once it fits
TinyVec_pop_compact(c) ==
    IF c.mode = "Heap"
    THEN LET r == Vec_pop(c)
         IN IF r.res = "Some" /\ Len(r.c.heap) <= N
            THEN Outcome(from_array_len([i \in 1 .. N |-> IF i <= Len(r.c.heap) THEN r.c.heap[i]
                                                          ELSE Uninit],
                                        Len(r.c.heap)), "Some", r.val)
            ELSE r
    ELSE ArrayVec_pop(c)

\* TinyVec::pop
TinyVec_pop(c) == IF c.mode = "Heap" THEN Vec_pop(c) ELSE ArrayVec_pop(c)

\* an insert that never moves to the heap: a full array is a panic
TinyVec_insert_no_spill(c, index, x) ==
    IF index > Len(as_slice(c)) THEN Panic(c, "insertion index should be <= len")
    ELSE IF c.mode = "Heap" THEN Vec_insert(c, index, x)
    ELSE LET r == ArrayVec_try_insert(c, index, x)
         IN IF r.res = "None" THEN Outcome(r.c, "Unit", NoVal)
            ELSE Panic(c, "ArrayVec::insert> capacity overflow!")

\* TinyVec::insert: asserts index <= len; Heap inserts; Inline tries the array
\* and, on a reject, moves to a new Vec with the item at index
TinyVec_insert(c, index, x) ==
    IF index > Len(as_slice(c)) THEN Panic(c, "insertion index should be <= len")
    ELSE IF c.mode = "Heap" THEN Vec_insert(c, index, x)
    ELSE LET r == ArrayVec_try_insert(c, index, x)
         IN IF r.res = "None" THEN Outcome(r.c, "Unit", NoVal)
            ELSE Outcome(HeapOf(SubSeq(as_slice(c), 1, index) \o <<x>>
                                \o SubSeq(as_slice(c), index + 1, c.len)),
                         "Unit", NoVal)

\* TinyVec::remove
TinyVec_remove(c, index) ==
    IF c.mode = "Heap" THEN Vec_remove(c, index) ELSE ArrayVec_remove(c, index)

\* ArrayVec::extend: push each item in turn (a push past CAPACITY panics with
\* the earlier items already stored); the items pass through
\* .map(UninitContainer::new) one at a time
RECURSIVE ArrayVec_extend(_, _)
ArrayVec_extend(c, items) ==
    IF items = <<>> THEN Outcome(c, "Unit", NoVal)
    ELSE LET r == ArrayVec_push(c, UninitContainer_new(Head(items)))
         IN IF r.res = "Panic" THEN r ELSE ArrayVec_extend(r.c, Tail(items))

\* TinyVec::extend: every item is pushed, spilling to the heap when the array is full
RECURSIVE TinyVec_extend(_, _)
TinyVec_extend(c, items) ==
    IF items = <<>> THEN Outcome(c, "Unit", NoVal)
    ELSE TinyVec_extend(TinyVec_push(c, UninitContainer_new(Head(items))).c, Tail(items))

\* Vec::extend
Vec_extend(c, items) == Outcome([c EXCEPT !.heap = c.heap \o items], "Unit", NoVal)

\* ------------------------------------------------------------- StorageVec
\* StorageVec::try_push / try_push_impl
try_push_impl(c, item) ==
    IF backend = "Heap" THEN Outcome(Vec_push(c, item).c, "Ok", NoVal)
    ELSE IF backend = "Hybrid"
    THEN Outcome(TinyVec_push(c, UninitContainer_new(item)).c, "Ok", NoVal)
    ELSE LET r == ArrayVec_try_push(c, UninitContainer_new(item))
         IN IF r.res = "None" THEN Outcome(r.c, "Ok", NoVal)
            ELSE Outcome(r.c, "Err", assume_init(r.val))

\* StorageVec::push
push(c, item) ==
    LET r == try_push_impl(c, item)
    IN IF r.res = "Err" THEN Panic(r.c, PushOverflow) ELSE Outcome(r.c, "Unit", NoVal)

\* a pop that reads the last element and leaves the length as it was
pop_impl_no_shrink(c) ==
    IF len(c) = 0 THEN Outcome(c, "None", NoVal)
    ELSE Outcome(c, "Some", deref_impl(c)[len(c)])

\* StorageVec::pop / pop_impl
pop_impl(c) ==
    IF backend = "Heap" THEN Vec_pop(c)
    ELSE LET r == IF backend = "Hybrid" THEN TinyVec_pop(c) ELSE ArrayVec_pop(c)
         IN IF r.res = "Some" THEN Outcome(r.c, "Some", assume_init(r.val))
            ELSE Outcome(r.c, "None", NoVal)

\* StorageVec::try_insert / try_insert_impl
try_insert_impl(c, item, index) ==
    IF backend = "Heap"
    THEN LET r == Vec_insert(c, index, item)
         IN IF r.res = "Panic" THEN r ELSE Outcome(r.c, "Ok", NoVal)
    ELSE IF backend = "Hybrid"
    THEN LET r == TinyVec_insert(c, index, UninitContainer_new(item))
         IN IF r.res = "Panic" THEN r ELSE Outcome(r.c, "Ok", NoVal)
    ELSE LET r == ArrayVec_try_insert(c, index, UninitContainer_new(item))
         IN IF r.res = "Panic" THEN r
            ELSE IF r.res = "None" THEN Outcome(r.c, "Ok", NoVal)
            ELSE Outcome(r.c, "Err", assume_init(r.val))

\* StorageVec::insert
insert(c, item, index) ==
    LET r == try_insert_impl(c, item, index)
    IN IF r.res = "Panic" THEN r
       ELSE IF r.res = "Err" THEN Panic(r.c, InsertOverflow)
       ELSE Outcome(r.c, "Unit", NoVal)

\* a removal that fills the hole with the last element instead of shifting
\* the tail (swap_remove)
remove_impl_swap(c, index) ==
    LET s == as_slice(c)
        t == [i \in 1 .. Len(s) - 1 |-> IF i = index + 1 THEN s[Len(s)] ELSE s[i]]
    IN IF index >= Len(s) THEN Panic(c, "swap_remove index should be < len")
       ELSE IF c.mode = "Inline"
       THEN Outcome([c EXCEPT !.data = [i \in 1 .. N |-> IF i <= Len(t) THEN t[i] ELSE Uninit],
                              !.len = c.len - 1],
                    "Some", assume_init(s[index + 1]))
       ELSE Outcome([c EXCEPT !.heap = t], "Some",
                    IF backend = "Heap" THEN s[index + 1] ELSE assume_init(s[index + 1]))

\* StorageVec::remove_impl
remove_impl(c, index) ==
    IF backend = "Heap" THEN Vec_remove(c, index)
    ELSE LET r == IF backend = "Hybrid" THEN TinyVec_remove(c, index)
                  ELSE ArrayVec_remove(c, index)
         IN IF r.res = "Panic" THEN r ELSE Outcome(r.c, "Some", assume_init(r.val))

\* usize subtraction in a build without overflow checks: it wraps
wrapping_sub(a, b) == (a - b) % (UsizeMax + 1)

\* StorageVec::remove: the bound is self.len() - 1, which overflows for len() == 0
\* (a panic with overflow checks, usize::MAX without)
remove(c, index) ==
    IF len(c) = 0 /\ overflowChecks THEN Panic(c, "attempt to subtract with overflow")
    ELSE IF index >= wrapping_sub(len(c), 1) THEN Outcome(c, "None", NoVal)
    ELSE LET r == remove_impl(c, index)
         IN IF r.res = "Panic" THEN r ELSE Outcome(r.c, "Some", r.val)

\* cloner: an uninitialized array of N slots, arr[i] written for every element
\* i of the slice; arr[i] panics (index out of bounds) for i >= N.
\* The result is the array, or "Panic".
cloner(c) ==
    LET s == deref_impl(c)
    IN IF Len(s) > N THEN "Panic"
       ELSE [i \in 1 .. N |-> IF i <= Len(s) THEN UninitContainer_new(s[i]) ELSE Uninit]

\* a clone that declares every slot of the new array live
clone_full_len(c) ==
    IF backend = "Heap" THEN Outcome(HeapOf(c.heap), "Unit", NoVal)
    ELSE IF Len(deref_impl(c)) > N THEN Panic(NoContainer, "index out of bounds")
    ELSE Outcome(from_array_len(cloner(c), N), "Unit", NoVal)

\* <StorageVec as Clone>::clone
clone(c) ==
    IF backend = "Heap" THEN Outcome(HeapOf(c.heap), "Unit", NoVal)
    ELSE IF Len(deref_impl(c)) > N THEN Panic(NoContainer, "index out of bounds")
    ELSE Outcome(from_array_len(cloner(c), len(c)), "Unit", NoVal)

\* <StorageVec as Extend>::extend
extend(c, items) ==
    IF backend = "Heap" THEN Vec_extend(c, items)
    ELSE IF backend = "Hybrid" THEN TinyVec_extend(c, items)
    ELSE ArrayVec_extend(c, items)

\* <StorageVec as DerefMut>::deref_mut followed by `view[index] = item`: the
\* view has len elements, so index >= len panics; the slot is overwritten
deref_mut_write(c, index, item) ==
    IF index >= Len(deref_impl(c)) THEN Panic(c, "index out of bounds")
    ELSE IF c.mode = "Inline"
    THEN Outcome([c EXCEPT !.data[index + 1] = UninitContainer_new(item)], "Unit", NoVal)
    ELSE Outcome([c EXCEPT !.heap[index + 1] = IF backend = "Heap" THEN item
                                               ELSE UninitContainer_new(item)],
                 "Unit", NoVal)

\* What destroying a StorageVec drops, in order: Vec<T> drops its elements;
\* a slot is a MaybeUninit<T>, which never drops what it holds, and neither
\* UninitContainer nor StorageVec implements Drop
drop_glue(c) == IF backend = "Heap" THEN c.heap ELSE <<>>


\* ----------------------------------------------------- StorageVecIterator
\* The iterator: the buffer it took over and its two cursors. ArrayVecIterator
\* keeps {base, tail, data}, vec::IntoIter keeps {ptr, end} into its buffer.
Iterator(active, mode, data, base, tail) ==
    [active |-> active, mode |-> mode, data |-> data, base |-> base, tail |-> tail]

NoIterator == Iterator(FALSE, "Heap", <<>>, 0, 0)

\* StorageVecIterator::new: (list.0).0.into_iter()
StorageVecIterator_new(c) ==
    IF c.mode = "Inline" THEN Iterator(TRUE, "Inline", c.data, 0, c.len)
    ELSE Iterator(TRUE, "Heap", c.heap, 0, Len(c.heap))

\* ArrayVecIterator::next: the first slot of data[base..tail] is taken, base += 1
ArrayVecIterator_next(it) ==
    IF it.base < it.tail
    THEN Outcome([it EXCEPT !.data[it.base + 1] = Uninit, !.base = it.base + 1],
                 "Some", it.data[it.base + 1])
    ELSE Outcome(it, "None", NoVal)

\* ArrayVecIterator::next_back: the last slot of data[base..tail] is taken, tail -= 1
ArrayVecIterator_next_back(it) ==
    IF it.base < it.tail
    THEN Outcome([it EXCEPT !.data[it.tail] = Uninit, !.tail = it.tail - 1],
                 "Some", it.data[it.tail])
    ELSE Outcome(it, "None", NoVal)

\* vec::IntoIter::next: reads *ptr and advances ptr, None at ptr == end
IntoIter_next(it) ==
    IF it.base < it.tail
    THEN Outcome([it EXCEPT !.base = it.base + 1], "Some", it.data[it.base + 1])
    ELSE Outcome(it, "None", NoVal)

\* vec::IntoIter::next_back: retreats end and reads *end, None at ptr == end
IntoIter_next_back(it) ==
    IF it.base < it.tail
    THEN Outcome([it EXCEPT !.tail = it.tail - 1], "Some", it.data[it.tail])
    ELSE Outcome(it, "None", NoVal)

\* a next that reads the front element and leaves the cursor where it was
next_no_advance(it) ==
    IF it.base < it.tail
    THEN Outcome(it, "Some", IF backend = "Heap" THEN it.data[it.base + 1]
                             ELSE assume_init(it.data[it.base + 1]))
    ELSE Outcome(it, "None", NoVal)

\* <StorageVecIterator as Iterator>::next
next(it) ==
    IF backend = "Heap" THEN IntoIter_next(it)
    ELSE LET r == IF it.mode = "Inline" THEN ArrayVecIterator_next(it) ELSE IntoIter_next(it)
         IN IF r.res = "Some" THEN Outcome(r.c, "Some", assume_init(r.val)) ELSE r

\* a next_back that takes from the wrong end: the front element
next_back_front(it) ==
    IF it.base < it.tail
    THEN Outcome([it EXCEPT !.base = it.base + 1], "Some",
                 IF backend = "Heap" THEN it.data[it.base + 1]
                 ELSE assume_init(it.data[it.base + 1]))
    ELSE Outcome(it, "None", NoVal)

\* <StorageVecIterator as DoubleEndedIterator>::next_back (not built on Hybrid)
next_back(it) ==
    IF backend = "Heap" THEN IntoIter_next_back(it)
    ELSE LET r == ArrayVecIterator_next_back(it)
         IN IF r.res = "Some" THEN Outcome(r.c, "Some", assume_init(r.val)) ELSE r

\* a size_hint that forgets what the front has yielded
size_hint_tail(it) == it.tail

\* StorageVecIterator::size_hint: the inner iterator's exact remaining count
size_hint(it) == it.tail - it.base

\* ------------------------------------------------------------ bookkeeping
\* the record of a call
Call(op, who, item, index, items, r, pre, dropped) ==
    [op |-> op, who |-> who, item |-> item, index |-> index, items |-> items,
     res |-> r.res, val |-> r.val, pre |-> pre, dropped |-> dropped]

NoHist == [phase |-> "off", pushed |-> <<>>, popped |-> <<>>]

\* hist after a call on container who: pushes extend the push log while nothing
\* else has happened since new(); pops that follow extend the pop log
HistAfter(op, who, item, r) ==
    IF who # "v" \/ op = "clone" THEN hist
    ELSE IF op \in {"push", "try_push"} /\ r.res \in {"Ok", "Unit"} /\ hist.phase = "push"
    THEN [hist EXCEPT !.pushed = Append(hist.pushed, item)]
    ELSE IF op = "pop" /\ hist.phase \in {"push", "pop"}
    THEN [hist EXCEPT !.phase = "pop",
                      !.popped = IF r.res = "Some" THEN Append(hist.popped, r.val)
                                 ELSE hist.popped]
    ELSE NoHist

\* returned after a call on container who with outcome r: a Some(x) of pop or
\* remove and the Err(x) of a rejected try_push or try_insert hand x to the
\* caller. The count is kept for v while its values have no clones.
ReturnedAfter(who, r) ==
    IF who = "v" /\ ~vecs["c"].alive /\ r.res \in {"Some", "Err"}
    THEN [returned EXCEPT ![r.val] = returned[r.val] + 1]
    ELSE returned

NoTaken == [orig |-> <<>>, front |-> <<>>, back |-> <<>>, noneF |-> FALSE, noneB |-> FALSE]

\* a call whose effect also shows in the other container while the two hold
\* the same storage contents, as if a clone shared its buffer with the original
Mutate_shared(op, id, item, index, items, r) ==
    /\ vecs' = [j \in Ids |-> IF j = id \/ vecs[j] = vecs[id] THEN r.c ELSE vecs[j]]
    /\ last' = Call(op, id, item, index, items, r, vecs[id], <<>>)
    /\ hist' = HistAfter(op, id, item, r)
    /\ returned' = ReturnedAfter(id, r)
    /\ panicked' = (r.res = "Panic")
    /\ UNCHANGED <<backend, overflowChecks, iter, taken>>

\* a mutating call on container id with outcome r
Mutate(op, id, item, index, items, r) ==
    /\ vecs' = [vecs EXCEPT ![id] = r.c]
    /\ last' = Call(op, id, item, index, items, r, vecs[id], <<>>)
    /\ hist' = HistAfter(op, id, item, r)
    /\ returned' = ReturnedAfter(id, r)
    /\ panicked' = (r.res = "Panic")
    /\ UNCHANGED <<backend, overflowChecks, iter, taken>>

\* ----------------------------------------------------------------- actions
Init ==
    /\ backend \in Backends
    /\ overflowChecks \in BOOLEAN
    /\ vecs = [id \in Ids |-> IF id = "v" THEN new_impl(backend) ELSE NoContainer]
    /\ iter = NoIterator
    /\ nextVal = 1
    /\ last = Call("new", "v", NoVal, 0, <<>>, Outcome(NoContainer, "Unit", NoVal),
                   NoContainer, <<>>)
    /\ hist = [phase |-> "push", pushed |-> <<>>, popped |-> <<>>]
    /\ taken = NoTaken
    /\ panicked = FALSE
    /\ returned = [x \in Val |-> 0]

\* container id can be called: it exists, the thread has not panicked, and the
\* caller is not in the middle of an iteration
Usable(id) == ~panicked /\ ~iter.active /\ vecs[id].alive

TryPush(id) ==
    /\ Usable(id) /\ nextVal <= MaxVal
    /\ Mutate("try_push", id, nextVal, 0, <<>>, try_push_impl(vecs[id], nextVal))
    /\ nextVal' = nextVal + 1

Push(id) ==
    /\ Usable(id) /\ nextVal <= MaxVal
    /\ Mutate("push", id, nextVal, 0, <<>>, push(vecs[id], nextVal))
    /\ nextVal' = nextVal + 1

Pop(id) ==
    /\ Usable(id)
    /\ Mutate("pop", id, NoVal, 0, <<>>, pop_impl(vecs[id]))
    /\ UNCHANGED nextVal

TryInsert(id, index) ==
    /\ Usable(id) /\ nextVal <= MaxVal
    /\ Mutate("try_insert", id, nextVal, index, <<>>, try_insert_impl(vecs[id], nextVal, index))
    /\ nextVal' = nextVal + 1

Insert(id, index) ==
    /\ Usable(id) /\ nextVal <= MaxVal
    /\ Mutate("insert", id, nextVal, index, <<>>, insert(vecs[id], nextVal, index))
    /\ nextVal' = nextVal + 1

Remove(id, index) ==
    /\ Usable(id)
    /\ Mutate("remove", id, NoVal, index, <<>>, remove(vecs[id], index))
    /\ UNCHANGED nextVal

Extend(id, k) ==
    /\ Usable(id) /\ nextVal + k - 1 <= MaxVal
    /\ LET items == [i \in 1 .. k |-> nextVal + i - 1]
       IN Mutate("extend", id, NoVal, 0, items, extend(vecs[id], items))
    /\ nextVal' = nextVal + k

\* c = v.clone()
Clone ==
    /\ Usable("v") /\ ~vecs["c"].alive
    /\ LET r == clone(vecs["v"])
       IN /\ vecs' = [vecs EXCEPT !["c"] = r.c]
          /\ last' = Call("clone", "v", NoVal, 0, <<>>, r, vecs["v"], <<>>)
          /\ panicked' = (r.res = "Panic")
    /\ UNCHANGED <<backend, overflowChecks, iter, nextVal, hist, taken, returned>>

\* container id goes out of scope
Drop(id) ==
    /\ Usable(id)
    /\ vecs' = [vecs EXCEPT ![id] = NoContainer]
    /\ last' = Call("drop", id, NoVal, 0, <<>>, Outcome(NoContainer, "Unit", NoVal),
                    vecs[id], drop_glue(vecs[id]))
    /\ hist' = IF id = "v" THEN NoHist ELSE hist
    /\ UNCHANGED <<backend, overflowChecks, iter, nextVal, taken, panicked, returned>>

\* container id is turned into the owning iterator
IntoIter(id) ==
    /\ Usable(id)
    /\ iter' = StorageVecIterator_new(vecs[id])
    /\ taken' = [NoTaken EXCEPT !.orig = deref_impl(vecs[id])]
    /\ vecs' = [vecs EXCEPT ![id] = NoContainer]
    /\ last' = Call("into_iter", id, NoVal, 0, <<>>, Outcome(NoContainer, "Unit", NoVal),
                    vecs[id], <<>>)
    /\ hist' = IF id = "v" THEN NoHist ELSE hist
    /\ UNCHANGED <<backend, overflowChecks, nextVal, panicked, returned>>

IterNext ==
    /\ ~panicked /\ iter.active
    /\ LET r == next(iter)
       IN /\ iter' = r.c
          /\ taken' = IF r.res = "Some" THEN [taken EXCEPT !.front = Append(taken.front, r.val)]
                      ELSE [taken EXCEPT !.noneF = TRUE]
          /\ last' = Call("next", "iter", NoVal, 0, <<>>, r, NoContainer, <<>>)
    /\ UNCHANGED <<backend, overflowChecks, vecs, nextVal, hist, panicked, returned>>

IterNextBack ==
    /\ ~panicked /\ iter.active /\ backend # "Hybrid"
    /\ LET r == next_back(iter)
       IN /\ iter' = r.c
          /\ taken' = IF r.res = "Some" THEN [taken EXCEPT !.back = Append(taken.back, r.val)]
                      ELSE [taken EXCEPT !.noneB = TRUE]
          /\ last' = Call("next_back", "iter", NoVal, 0, <<>>, r, NoContainer, <<>>)
    /\ UNCHANGED <<backend, overflowChecks, vecs, nextVal, hist, panicked, returned>>

\* The caller works on v; c is v's clone, which is dropped or iterated.
Next ==
    \/ TryPush("v")
    \/ Push("v")
    \/ Pop("v")
    \/ \E index \in Indices : TryInsert("v", index)
    \/ \E index \in Indices : Insert("v", index)
    \/ \E index \in Indices : Remove("v", index)
    \/ \E k \in 0 .. MaxExt : Extend("v", k)
    \/ Clone
    \/ \E id \in Ids : Drop(id)
    \/ \E id \in Ids : IntoIter(id)
    \/ IterNext
    \/ IterNextBack

Spec == Init /\ [][Next]_vars


\* view[index] = item through the mutable slice view of container id
Write(id, index) ==
    /\ Usable(id) /\ nextVal <= MaxVal
    /\ Mutate("write", id, nextVal, index, <<>>, deref_mut_write(vecs[id], index, nextVal))
    /\ nextVal' = nextVal + 1

\* The caller fills v, clones it, and then works on both v and its clone c.
\* (insert goes through try_insert, so Insert stands for both.)
NextClone ==
    \/ Clone
    \/ \E id \in Ids : TryPush(id)
    \/ \E id \in Ids : Push(id)
    \/ \E id \in Ids, k \in 0 .. MaxExt : Extend(id, k)
    \/ vecs["c"].alive /\ \E id \in Ids : Pop(id)
    \/ vecs["c"].alive /\ \E id \in Ids, index \in Indices : Insert(id, index)
    \/ vecs["c"].alive /\ \E id \in Ids, index \in Indices : Remove(id, index)
    \/ vecs["c"].alive /\ \E id \in Ids, index \in Indices : Write(id, index)

SpecClone == Init /\ [][NextClone]_vars

\* The caller works on one container with try_push, pop, try_insert and remove.
NextOwn ==
    \/ TryPush("v")
    \/ Pop("v")
    \/ \E index \in Indices : TryInsert("v", index)
    \/ \E index \in Indices : Remove("v", index)

SpecOwn == Init /\ [][NextOwn]_vars

\* ------------------------------------------------------------------ claims
\* the elements of the receiver before and after the last call
Before == deref_impl(last.pre)
After == deref_impl(vecs[last.who])
Reverse(s) == [i \in 1 .. Len(s) |-> s[Len(s) - i + 1]]
\* s without the element at (0-based) index i, and s with x put at index i
Without(s, i) == SubSeq(s, 1, i) \o SubSeq(s, i + 2, Len(s))
With(s, i, x) == SubSeq(s, 1, i) \o <<x>> \o SubSeq(s, i + 1, Len(s))

\* C1: on every backend, remove(len - 1) on a non-empty container returns
\* Some(last element), len decreases by one and the rest keeps its order.
C1_RemoveLastSucceeds ==
    (last.op = "remove" /\ Len(Before) > 0 /\ last.index = Len(Before) - 1) =>
        /\ last.res = "Some"
        /\ last.val = Before[Len(Before)]
        /\ After = SubSeq(Before, 1, Len(Before) - 1)

\* C2: on every backend and in every state, the empty container included,
\* remove(index) with index >= len returns None, does not panic and leaves the
\* container as it was.
C2_RemoveOutOfRangeIsNone ==
    (last.op = "remove" /\ last.index >= Len(Before)) =>
        /\ last.res = "None"
        /\ vecs[last.who] = last.pre

\* C3: on every backend and in every state (Hybrid inline or spilled), clone()
\* completes and returns a container with the same len and the same elements in
\* the same order.
C3_CloneSameElements ==
    last.op = "clone" =>
        /\ last.res = "Unit"
        /\ vecs["c"].alive
        /\ len(vecs["c"]) = Len(Before)
        /\ deref_impl(vecs["c"]) = Before

\* C4: when a container is destroyed, exactly its live elements [0, len) are
\* dropped, each once, on every backend.
C4_DropDropsLiveElements ==
    last.op = "drop" =>
        /\ Len(last.dropped) = Len(Before)
        /\ \A i \in 1 .. Len(Before) :
               Cardinality({j \in 1 .. Len(last.dropped) : last.dropped[j] = Before[i]}) = 1


\* C5: on the Fixed backend, try_push(v) at len == N returns Err(v) and leaves
\* len and the elements as they were; at len < N it returns Ok(()), appends v
\* at position len and len grows by one.
C5_FixedTryPush ==
    (backend = "Fixed" /\ last.op = "try_push") =>
        /\ Len(Before) = N =>
              /\ last.res = "Err" /\ last.val = last.item
              /\ len(vecs[last.who]) = N /\ After = Before
        /\ Len(Before) < N =>
              /\ last.res = "Ok"
              /\ len(vecs[last.who]) = Len(Before) + 1
              /\ After = Append(Before, last.item)
        /\ Len(Before) <= N

\* a try_push on a full Fixed container has been rejected
C5_Witness ==
    /\ backend = "Fixed" /\ last.op = "try_push"
    /\ Len(Before) = N /\ last.res = "Err"

\* C6: on the Hybrid backend, the push of element N+1 onto N inline elements
\* succeeds, the container becomes heap-backed, and the slice view holds every
\* element pushed before and after the transition in push order.
C6_HybridSpillKeepsOrder ==
    backend = "Hybrid" =>
        /\ (last.op \in {"push", "try_push"} /\ last.pre.mode = "Inline" /\ Len(Before) = N) =>
              /\ last.res \in {"Ok", "Unit"}
              /\ vecs[last.who].mode = "Heap"
              /\ After = Append(Before, last.item)
        /\ (hist.phase = "push" /\ vecs["v"].alive) => deref_impl(vecs["v"]) = hist.pushed

\* N + 1 pushes onto a new Hybrid container, the last of which spilled
C6_Witness ==
    /\ backend = "Hybrid" /\ last.op \in {"push", "try_push"}
    /\ last.pre.mode = "Inline" /\ Len(Before) = N
    /\ hist.phase = "push" /\ Len(hist.pushed) = N + 1
    /\ vecs["v"].mode = "Heap"

\* C7: after k pushes onto a new container len is k, and the pops that follow
\* return the pushed values in reverse push order; after k pops the container
\* is empty.
C7_PushPopReverse ==
    vecs["v"].alive =>
        /\ hist.phase = "push" =>
              /\ len(vecs["v"]) = Len(hist.pushed)
              /\ deref_impl(vecs["v"]) = hist.pushed
        /\ hist.phase = "pop" =>
              /\ Len(hist.popped) <= Len(hist.pushed)
              /\ hist.popped = SubSeq(Reverse(hist.pushed), 1, Len(hist.popped))
              /\ len(vecs["v"]) = Len(hist.pushed) - Len(hist.popped)
              /\ (last.op = "pop" /\ last.res = "None") => Len(hist.popped) = Len(hist.pushed)

\* k >= 2 pushes followed by k pops
C7_Witness ==
    /\ vecs["v"].alive /\ hist.phase = "pop"
    /\ Len(hist.pushed) >= 2 /\ Len(hist.popped) = Len(hist.pushed)
    /\ last.op = "pop" /\ last.res = "Some"

\* C8: on the Fixed backend, try_insert(v, index) at len == N returns Err(v) and
\* leaves the container as it was for every index, index > len included.
C8_FullTryInsertRejects ==
    (backend = "Fixed" /\ last.op = "try_insert" /\ Len(Before) = N) =>
        /\ last.res = "Err" /\ last.val = last.item
        /\ vecs[last.who] = last.pre

\* what a call that takes effect leaves in the container
Effect(c) ==
    CASE c.op \in {"try_push", "push"} -> Append(deref_impl(c.pre), c.item)
      [] c.op \in {"try_insert", "insert"} -> With(deref_impl(c.pre), c.index, c.item)
      [] c.op = "pop" -> SubSeq(deref_impl(c.pre), 1, Len(deref_impl(c.pre)) - 1)
      [] c.op = "remove" -> Without(deref_impl(c.pre), c.index)
      [] c.op = "extend" -> deref_impl(c.pre) \o c.items

\* C9: every mutating operation is all-or-nothing on every backend: a call
\* that fails (Err, None) or panics leaves len, the elements and the mode as
\* they were, and a call that succeeds has its full effect.
C9_AllOrNothing ==
    last.op \in {"try_push", "push", "try_insert", "insert", "pop", "remove", "extend"} =>
        IF last.res \in {"Err", "None", "Panic"}
        THEN vecs[last.who] = last.pre
        ELSE After = Effect(last)

\* C10: the owning iterator yields the container's elements in original order
\* from the front and in reverse order from the back, each once; the cursors
\* never cross, and once an end has returned None everything has been yielded
\* and the remaining count is zero.
C10_IterExactlyOnce ==
    iter.active =>
        /\ iter.base <= iter.tail
        /\ iter.base = Len(taken.front)
        /\ iter.tail = Len(taken.orig) - Len(taken.back)
        /\ taken.front = SubSeq(taken.orig, 1, Len(taken.front))
        /\ taken.back = SubSeq(Reverse(taken.orig), 1, Len(taken.back))
        /\ (last.op \in {"next", "next_back"} /\ last.res = "None") =>
              /\ taken.front \o Reverse(taken.back) = taken.orig
              /\ size_hint(iter) = 0
        /\ (taken.noneF \/ taken.noneB) =>
              Len(taken.front) + Len(taken.back) = Len(taken.orig)
        /\ (taken.noneF /\ taken.back = <<>>) => taken.front = taken.orig

\* an iteration from both ends that has met in the middle: both ends returned None
C10_Witness ==
    /\ iter.active /\ taken.noneF /\ taken.noneB
    /\ Len(taken.front) >= 1 /\ Len(taken.back) >= 1
    /\ Len(taken.orig) >= 3


\* C11 as stated: the owning iterator can be consumed from the back on all
\* three backends, Fixed, Heap and Hybrid.
C11_NextBackOnEveryBackend ==
    (iter.active /\ ~panicked) => ENABLED IterNextBack

\* C11 as amended: the owning iterator can be consumed from the back on the
\* Fixed and Heap backends, where next_back() yields the last element not yet
\* yielded (None when none is left); the Hybrid build has no next_back.
C11_NextBackFixedAndHeap ==
    /\ (iter.active /\ ~panicked) => (ENABLED IterNextBack <=> backend \in {"Fixed", "Heap"})
    /\ last.op = "next_back" =>
          /\ backend \in {"Fixed", "Heap"}
          /\ last.res \in {"Some", "None"}
          /\ last.res = "Some" =>
                /\ Len(taken.back) >= 1
                /\ last.val = taken.back[Len(taken.back)]
                /\ last.val = taken.orig[Len(taken.orig) - Len(taken.back) + 1]
          /\ last.res = "None" => Len(taken.front) + Len(taken.back) = Len(taken.orig)

\* a next_back that follows a next: it yields the last element, not the second
C11_Witness ==
    /\ backend = "Fixed" /\ last.op = "next_back" /\ last.res = "Some"
    /\ Len(taken.front) >= 1 /\ Len(taken.orig) = N

\* C12: at every point of an owning iteration, on every backend, the remaining
\* count the iterator reports is the original len minus what the front and the
\* back have yielded.
C12_ExactRemainingCount ==
    iter.active => size_hint(iter) = Len(taken.orig) - Len(taken.front) - Len(taken.back)

\* an iteration of three elements has yielded one from the front and has two left
C12_Witness ==
    /\ iter.active /\ Len(taken.orig) = 3
    /\ Len(taken.front) = 1 /\ taken.back = <<>>
    /\ size_hint(iter) = 2


\* C13: on the Fixed backend, push(v) and insert(v, index) at len == N panic
\* with the capacity-overflow message and leave len and the elements as they
\* were; at len < N (and index <= len) they return and have the effect of the
\* successful try_push / try_insert.
C13_FixedPushInsertOverflow ==
    backend = "Fixed" =>
        /\ (last.op = "push" /\ Len(Before) = N) =>
              /\ last.res = "Panic" /\ last.val = PushOverflow
              /\ vecs[last.who] = last.pre
        /\ (last.op = "insert" /\ Len(Before) = N) =>
              /\ last.res = "Panic" /\ last.val = InsertOverflow
              /\ vecs[last.who] = last.pre
        /\ (last.op = "push" /\ Len(Before) < N) =>
              /\ last.res = "Unit"
              /\ vecs[last.who] = try_push_impl(last.pre, last.item).c
        /\ (last.op = "insert" /\ Len(Before) < N /\ last.index <= Len(Before)) =>
              /\ last.res = "Unit"
              /\ vecs[last.who] = try_insert_impl(last.pre, last.item, last.index).c


\* C14: on the Heap and Hybrid backends, in every state, try_push(v) returns
\* Ok(()) and try_insert(v, index) with index <= len returns Ok(()); push and
\* insert (index <= len) return, and no call panics for capacity.
C14_HeapHybridNeverOverflow ==
    backend \in {"Heap", "Hybrid"} =>
        /\ last.op = "try_push" => last.res = "Ok"
        /\ (last.op = "try_insert" /\ last.index <= Len(Before)) => last.res = "Ok"
        /\ last.op = "push" => last.res = "Unit"
        /\ (last.op = "insert" /\ last.index <= Len(Before)) => last.res = "Unit"
        /\ last.op \in {"try_push", "try_insert", "push", "insert"} =>
              \/ last.res = "Panic" /\ last.index > Len(Before)
              \/ last.res \in {"Ok", "Unit"} /\ Len(After) = Len(Before) + 1

\* a try_insert into a Hybrid container whose N inline slots are all in use
C14_Witness ==
    /\ backend = "Hybrid" /\ last.op = "try_insert" /\ last.res = "Ok"
    /\ last.pre.mode = "Inline" /\ Len(Before) = N /\ last.index < N

\* the calls that take &mut self
MutOps == {"try_push", "push", "try_insert", "insert", "pop", "remove", "extend"}

\* how many elements the last call was asked to add
Added == IF last.op \in {"try_push", "push", "try_insert", "insert"} THEN 1
         ELSE IF last.op = "extend" THEN Len(last.items) ELSE 0

\* C15: a Hybrid container starts Inline, leaves Inline only at a push, insert
\* or extend that needs more than N slots, and once Spilled stays Spilled under
\* every later call, also when len drops back to N or below.
C15_SpillIsOneWay ==
    backend = "Hybrid" =>
        /\ last.op = "new" => vecs["v"].mode = "Inline"
        /\ (last.op \in MutOps /\ last.pre.mode = "Inline" /\ vecs[last.who].mode = "Heap") =>
              /\ last.op \in {"try_push", "push", "try_insert", "insert", "extend"}
              /\ Len(Before) <= N /\ Len(Before) + Added > N
              /\ last.op # "extend" => Len(Before) = N
              /\ last.res # "Panic"
        /\ (last.op \in MutOps /\ last.pre.mode = "Inline" /\ last.res # "Panic"
               /\ Len(Before) + Added > N) => vecs[last.who].mode = "Heap"
        /\ (last.op \in MutOps /\ last.pre.mode = "Heap") => vecs[last.who].mode = "Heap"

\* a spilled container whose len is back at N after a pop or a remove
C15_Witness ==
    /\ backend = "Hybrid" /\ last.op \in {"pop", "remove"} /\ last.res = "Some"
    /\ last.pre.mode = "Heap" /\ vecs[last.who].mode = "Heap"
    /\ Len(After) = N


\* the container that is not id
Other(id) == IF id = "v" THEN "c" ELSE "v"

C17_RemoveResult ==
    last.op = "remove" =>
        /\ last.res = "Some" =>
              /\ last.index < Len(Before)
              /\ last.val = Before[last.index + 1]
              /\ After = Without(Before, last.index)
              /\ len(vecs[last.who]) = Len(Before) - 1
        /\ last.res = "None" =>
              /\ vecs[last.who] = last.pre
              /\ After = Before
              /\ len(vecs[last.who]) = Len(Before)

\* an element with two elements behind it has been removed
C17_Witness ==
    /\ last.op = "remove" /\ last.res = "Some"
    /\ Len(Before) >= 3 /\ last.index = 0
    /\ Before[2] # Before[3]


\* the receiver of the last call had room for one more element
HadRoom == backend = "Fixed" => Len(Before) < N

\* C18: on every backend, try_insert(v, index) with index <= len on a container
\* with elements s that has room (len < N on Fixed; always on Heap and Hybrid)
\* returns Ok(()) and leaves s[0..index], then v, then s[index..len], with len
\* one more; insert(v, len) has the same effect as push(v).
C18_TryInsertShifts ==
    /\ (last.op = "try_insert" /\ last.index <= Len(Before) /\ HadRoom) =>
          /\ last.res = "Ok"
          /\ After = With(Before, last.index, last.item)
          /\ len(vecs[last.who]) = Len(Before) + 1
    /\ (last.op = "insert" /\ last.index = Len(Before)) =>
          /\ vecs[last.who] = push(last.pre, last.item).c
          /\ last.res = push(last.pre, last.item).res
          /\ HadRoom => (last.res = "Unit" /\ After = Append(Before, last.item))

\* a try_insert in front of an element, with an element before it
C18_Witness ==
    /\ last.op = "try_insert" /\ last.res = "Ok"
    /\ last.index >= 1 /\ last.index < Len(Before)


\* C19: on every backend, pop() on an empty container returns None and leaves
\* it empty; on a non-empty container it returns the element at position
\* len - 1, len is one less and positions [0, len - 1) are as they were, so the
\* popped value is no longer in the slice view.
C19_PopLast ==
    last.op = "pop" =>
        /\ Len(Before) = 0 =>
              /\ last.res = "None"
              /\ vecs[last.who] = last.pre
              /\ After = <<>> /\ len(vecs[last.who]) = 0
        /\ Len(Before) > 0 =>
              /\ last.res = "Some"
              /\ last.val = Before[Len(Before)]
              /\ len(vecs[last.who]) = Len(Before) - 1
              /\ After = SubSeq(Before, 1, Len(Before) - 1)
              /\ \A i \in 1 .. Len(After) : After[i] # last.val
              /\ vecs[last.who].mode = "Inline" => vecs[last.who].data[Len(Before)] = Uninit

\* the last of several elements has been popped
C19_Witness ==
    /\ last.op = "pop" /\ last.res = "Some"
    /\ Len(Before) >= 2 /\ Len(After) = Len(Before) - 1


\* C20: on the Fixed backend, and on Hybrid while Inline, 0 <= len <= N in
\* every state reachable from new() by try_push, push, pop, try_insert, insert,
\* remove, extend and clone, and the read-only and mutable slice views have
\* exactly len elements, the live elements in order, and never show a slot at
\* or beyond len.
C20_InlineLenAndView ==
    \A id \in Ids :
        LET c == vecs[id]
        IN (c.alive /\ backend # "Heap") =>
               /\ backend = "Fixed" => c.mode = "Inline"
               /\ c.mode = "Inline" =>
                     /\ c.len \in 0 .. N
                     /\ Len(deref_impl(c)) = c.len
                     /\ \A i \in 1 .. c.len :
                            /\ c.data[i] # Uninit
                            /\ deref_impl(c)[i] = c.data[i][1]
                            /\ deref_impl(c)[i] \in Val
                            /\ deref_mut_write(c, i - 1, deref_impl(c)[i]).res = "Unit"
                     /\ deref_mut_write(c, c.len, Garbage).res = "Panic"

\* a full inline container next to a clone of it taken while it held fewer
\* elements
C20_Witness ==
    /\ backend # "Heap"
    /\ vecs["v"].alive /\ vecs["v"].mode = "Inline" /\ vecs["v"].len = N
    /\ vecs["c"].alive /\ vecs["c"].mode = "Inline" /\ vecs["c"].len \in 1 .. N - 1
    /\ last.op \in MutOps


\* how many slots of container c hold value x: every slot of the inline array
\* (at or beyond len too), every element of the heap buffer
Held(c, x) ==
    IF ~c.alive THEN 0
    ELSE IF c.mode = "Inline" THEN Cardinality({i \in 1 .. N : c.data[i] = UninitContainer_new(x)})
    ELSE Cardinality({i \in 1 .. Len(c.heap) :
                          c.heap[i] = IF backend = "Heap" THEN x ELSE UninitContainer_new(x)})

\* every value handed to v so far is in exactly one place: once in v, or handed
\* back to the caller once
Conserved ==
    \A x \in Val :
        Held(vecs["v"], x) + returned[x] = IF x < nextVal THEN 1 ELSE 0

\* the last call was an insertion beyond len into a container with room, which
\* the caller may not make and which may end fatally
InsertBeyondLen ==
    /\ last.op = "try_insert" /\ last.index > Len(Before) /\ HadRoom

\* C21: after any sequence of try_push, pop, try_insert and remove on any
\* backend, every value ever handed to the container is in exactly one place:
\* in the container exactly once, or handed back to the caller exactly once (a
\* pop or remove result, or the value of a rejected Err); no value is
\* duplicated, lost, or both held and returned. (An insertion beyond len into a
\* container with room is the caller's error and is left out.)
C21_OwnershipConserved == ~InsertBeyondLen => Conserved


=============================================================================
